---- MODULE Spec2Model ----
(***************************************************************************)
(* The request proxy core of the anime backend: proxyRequest (TTL cache    *)
(* in front of a FIFO queue) and processQueue (the single worker loop      *)
(* with the rate gate, the 429 requeue and the terminal failure path).     *)
(*                                                                         *)
(* JavaScript runs a handler to its next await without interleaving, so    *)
(* every action below is one such run: from an event (an HTTP request, a   *)
(* timer, an axios completion) to the next await or return.                *)
(*                                                                         *)
(* Time is in milliseconds.  A setTimeout fires at its deadline: the clock *)
(* cannot pass a pending deadline.  An axios call completes at any time    *)
(* after its issue, with a response or without one (network error, the     *)
(* 10 s timeout); the clock makes no step longer than that timeout while   *)
(* a call is in flight.                                                    *)
(***************************************************************************)
EXTENDS Integers, Sequences, FiniteSets, TLC

\* ---------------------------------------------------------------- constants
CACHE_DURATION == 5 * 60 * 1000
RATE_LIMIT_DELAY == 1000
TIMEOUT == 10000

\* ------------------------------------------------------------------- bounds
MaxReqs == 3        \* HTTP requests that arrive in one behaviour
MaxTicks == 4       \* small clock steps in one behaviour
MaxJumps == 1       \* long idle periods in one behaviour
MaxLoops == 2       \* loop instances of processQueue the model can hold
MaxLiveReqs == 2    \* HTTP requests that arrive in one behaviour of LiveSpec
MaxDirect == 1      \* /api/watch and /api/episodes requests in progress at once

Keys == {"A", "B"}                  \* endpoints
Payloads == {"p1", "p2"}            \* response bodies of the upstream
ErrStatuses == {404}                \* HTTP error statuses other than 429
TickStep == RATE_LIMIT_DELAY \div 2
JumpStep == CACHE_DURATION - RATE_LIMIT_DELAY
StartTime == 2 * CACHE_DURATION     \* Date.now() when the process starts
LiveStep == RATE_LIMIT_DELAY        \* LiveSpec: the clock step
LiveKeep == RATE_LIMIT_DELAY        \* LiveSpec: ages kept exactly up to this

Loops == 1 .. MaxLoops

VARIABLES
  now,                \* Date.now()
  cache,              \* the Map: endpoint -> {data, timestamp}
  lastRequestTime,
  queue,              \* array of {endpoint, res, resolve}
  isProcessingQueue,
  loops,              \* the running invocations of processQueue
  requests,           \* the HTTP requests received: endpoint, res, promise
  issued,             \* history: upstream calls issued per request (0, 1, more)
  lastCall,           \* history: the last upstream call that completed,
                      \*   and a stopwatch started at its completion
  lastOk,             \* history: per endpoint, the last successful call
  ticks,              \* small clock steps taken
  jumps,              \* long idle periods taken
  direct              \* calls to ANIME_API_URL in flight from /api/watch and
                      \*   /api/episodes

vars == <<now, cache, lastRequestTime, queue, isProcessingQueue, loops,
          requests, issued, lastCall, lastOk, ticks, jumps, direct>>

\* ------------------------------------------------------------------ values
NoEntry == [present |-> FALSE, data |-> "none", timestamp |-> 0]
NoResp == [sent |-> FALSE, status |-> 0, body |-> "none"]
NoItem == [endpoint |-> "none", res |-> 0]
Off == [pc |-> "off", item |-> NoItem, wakeAt |-> 0]
NoCall == [res |-> 0, kind |-> "none", status |-> 0, age |-> 0]
NoOk == [seen |-> FALSE, data |-> "none", at |-> 0]

\* What an axios.get can end in: a 2xx response with a body, an error with
\* a response (error.response.status), an error without one (timeout,
\* network error).
OkOutcomes == {[kind |-> "ok", status |-> 200, data |-> p] : p \in Payloads}
HttpErrors == {[kind |-> "http", status |-> s, data |-> "error"] :
                 s \in ErrStatuses \cup {429}}
NoResponse == {[kind |-> "noresp", status |-> 0, data |-> "error"]}
Outcomes == OkOutcomes \cup HttpErrors \cup NoResponse

Max(a, b) == IF a >= b THEN a ELSE b
Min(a, b) == IF a <= b THEN a ELSE b

\* ----------------------------------------------------------- pure helpers
\* Each test of the code is an operator.  The operators defined just before
\* one of them are that test with a slip in it (a wrong comparison, a
\* dropped operand); the claims are checked to tell the two apart.

\* cached && Date.now() - cached.timestamp < CACHE_DURATION
IsFreshInclusive(entry, t) == entry.present /\ t - entry.timestamp <= CACHE_DURATION
IsFreshStale(entry, t) == entry.present /\ t - entry.timestamp > CACHE_DURATION
IsFresh(entry, t) == entry.present /\ t - entry.timestamp < CACHE_DURATION

\* if (isProcessingQueue || queue.length === 0) return;
GuardNoFlag(ipq, q) == Len(q) = 0
Guard(ipq, q) == ipq \/ Len(q) = 0

\* timeSinceLastRequest < RATE_LIMIT_DELAY, and the time to wait if so
GateWaitNone(t, lrt) == 0
GateWait(t, lrt) ==
  IF t - lrt < RATE_LIMIT_DELAY THEN RATE_LIMIT_DELAY - (t - lrt) ELSE 0

\* error.response?.status === 429
IsThrottledNever(o) == FALSE
IsThrottledAnyStatus(o) == o.kind = "http"
IsThrottled(o) == o.kind = "http" /\ o.status = 429

\* error.response?.status || 500
ErrorStatusAlways500(o) == 500
ErrorStatus(o) == IF o.kind = "http" THEN o.status ELSE 500

\* queue.unshift(item)
RequeueLost(q, item) == q
RequeueAtTail(q, item) == Append(q, item)
Requeue(q, item) == <<item>> \o q

\* lastRequestTime = Date.now(), reached only when axios.get did not throw
StampedAlways(o, lrt, t) == t
Stamped(o, lrt, t) == IF o.kind = "ok" THEN t ELSE lrt

\* cache.set(endpoint, {data, timestamp: Date.now()})
CacheSetNoStamp(c, k, d, t) ==
  [c EXCEPT ![k] = [present |-> TRUE, data |-> d, timestamp |-> @.timestamp]]
CacheSet(c, k, d, t) ==
  [c EXCEPT ![k] = [present |-> TRUE, data |-> d, timestamp |-> t]]

\* the promise of request r is settled with value v
SettleNever(reqs, r, v) == reqs
Settle(reqs, r, v) == [reqs EXCEPT ![r].sink = v]
\* res.status(s).json(b) on the response object of request r
Send(reqs, r, s, b) ==
  [reqs EXCEPT ![r].res = [sent |-> TRUE, status |-> s, body |-> b]]

\* issued[r] is 0 (never called), 1 (called once) or 2 (called more than once)
Bump(iss, r) == [iss EXCEPT ![r] = IF @ = 0 THEN 1 ELSE 2]

\* The lowest loop slot that is free, 0 when there is none.
FreeLoop(L) ==
  IF \E w \in Loops : L[w].pc = "off"
  THEN CHOOSE w \in Loops : L[w].pc = "off" /\ \A v \in Loops : L[v].pc = "off" => w <= v
  ELSE 0

\* ------------------------------------------------------- the worker loop
\* What one pass of the loop does up to its next await, as the values of
\* queue, loops, isProcessingQueue and issued it leaves behind.

\* queue.shift() taken as queue.pop(), a slip
ShiftAndCallPop(w, q, ipq, L, iss) ==
  IF Len(q) = 0
  THEN [queue |-> q, loops |-> [L EXCEPT ![w] = Off],
        isProcessingQueue |-> ipq, issued |-> iss]
  ELSE [queue |-> SubSeq(q, 1, Len(q) - 1),
        loops |-> [L EXCEPT ![w] = [pc |-> "call", item |-> q[Len(q)], wakeAt |-> 0]],
        isProcessingQueue |-> ipq, issued |-> Bump(iss, q[Len(q)].res)]

\* const {endpoint, res, resolve} = queue.shift(); await axios.get(...)
\* An empty queue makes the destructuring throw: the invocation ends and the
\* flag stays as it is.
ShiftAndCall(w, q, ipq, L, iss) ==
  IF Len(q) = 0
  THEN [queue |-> q, loops |-> [L EXCEPT ![w] = Off],
        isProcessingQueue |-> ipq, issued |-> iss]
  ELSE [queue |-> Tail(q),
        loops |-> [L EXCEPT ![w] = [pc |-> "call", item |-> Head(q), wakeAt |-> 0]],
        isProcessingQueue |-> ipq, issued |-> Bump(iss, Head(q).res)]

\* isProcessingQueue = false, after the loop (ExitFlagKept: left out)
ExitFlagSet(ipq) == TRUE
ExitFlagKept(ipq) == ipq
ExitFlag(ipq) == FALSE

\* while (queue.length > 0) { gate; shift; call }  isProcessingQueue = false
LoopTop(w, q, lrt, ipq, L, iss) ==
  IF Len(q) = 0
  THEN [queue |-> q, loops |-> [L EXCEPT ![w] = Off],
        isProcessingQueue |-> ExitFlag(ipq), issued |-> iss]
  ELSE IF GateWait(now, lrt) > 0
       THEN [queue |-> q,
             loops |-> [L EXCEPT ![w] = [pc |-> "gate", item |-> NoItem,
                                         wakeAt |-> now + GateWait(now, lrt)]],
             isProcessingQueue |-> ipq, issued |-> iss]
       ELSE ShiftAndCall(w, q, ipq, L, iss)

\* processQueue(): the guard, the flag, the first pass
ProcessQueue(q, lrt, ipq, L, iss) ==
  IF Guard(ipq, q) \/ FreeLoop(L) = 0
  THEN [queue |-> q, loops |-> L, isProcessingQueue |-> ipq, issued |-> iss]
  ELSE LoopTop(FreeLoop(L), q, lrt, TRUE, L, iss)

Apply(st) ==
  /\ queue' = st.queue
  /\ loops' = st.loops
  /\ isProcessingQueue' = st.isProcessingQueue
  /\ issued' = st.issued

\* ------------------------------------------------------------------- Init
Init ==
  /\ now = StartTime
  /\ cache = [k \in Keys |-> NoEntry]
  /\ lastRequestTime = 0
  /\ queue = <<>>
  /\ isProcessingQueue = FALSE
  /\ loops = [w \in Loops |-> Off]
  /\ requests = <<>>
  /\ issued = <<>>
  /\ lastCall = NoCall
  /\ lastOk = [k \in Keys |-> NoOk]
  /\ ticks = 0
  /\ jumps = 0
  /\ direct = 0

\* ---------------------------------------------------------------- actions
Pending(r) == requests[r].sink = "pending"

\* proxyRequest, cache hit: return res.json(cached.data)
ProxyHit(k) ==
  /\ Len(requests) < MaxReqs
  /\ IsFresh(cache[k], now)
  /\ requests' = Append(requests,
       [endpoint |-> k,
        res |-> [sent |-> TRUE, status |-> 200, body |-> cache[k].data],
        sink |-> "none"])
  /\ issued' = Append(issued, 0)
  /\ UNCHANGED <<now, cache, lastRequestTime, queue, isProcessingQueue, loops,
                 lastCall, lastOk, ticks, jumps, direct>>

\* proxyRequest, cache miss: queue.push({endpoint, res, resolve});
\* processQueue(); then the handler awaits its promise
ProxyMiss(k) ==
  /\ Len(requests) < MaxReqs
  /\ ~IsFresh(cache[k], now)
  /\ LET r == Len(requests) + 1
     IN /\ requests' = Append(requests,
             [endpoint |-> k, res |-> NoResp, sink |-> "pending"])
        /\ Apply(ProcessQueue(Append(queue, [endpoint |-> k, res |-> r]),
                              lastRequestTime, isProcessingQueue, loops,
                              Append(issued, 0)))
  /\ UNCHANGED <<now, cache, lastRequestTime, lastCall, lastOk, ticks, jumps, direct>>

\* the rate gate's timer fires: shift and call
GateWake(w) ==
  /\ loops[w].pc = "gate"
  /\ now >= loops[w].wakeAt
  /\ Apply(ShiftAndCall(w, queue, isProcessingQueue, loops, issued))
  /\ UNCHANGED <<now, cache, lastRequestTime, requests, lastCall, lastOk,
                 ticks, jumps, direct>>

Done(w, o) ==
  [res |-> loops[w].item.res, kind |-> o.kind, status |-> o.status, age |-> 0]

\* axios.get resolves: stamp, cache, resolve, respond, next pass
CallOk(w, o) ==
  /\ loops[w].pc = "call"
  /\ o \in OkOutcomes
  /\ LET it == loops[w].item
     IN /\ lastRequestTime' = Stamped(o, lastRequestTime, now)
        /\ cache' = CacheSet(cache, it.endpoint, o.data, now)
        /\ requests' = Send(Settle(requests, it.res, o.data), it.res, 200, o.data)
        /\ lastOk' = [lastOk EXCEPT ![it.endpoint] =
                        [seen |-> TRUE, data |-> o.data, at |-> now]]
        /\ Apply(LoopTop(w, queue, Stamped(o, lastRequestTime, now),
                          isProcessingQueue, loops, issued))
  /\ lastCall' = Done(w, o)
  /\ UNCHANGED <<now, ticks, jumps, direct>>

\* axios.get rejects with a 429: unshift, wait RATE_LIMIT_DELAY
CallThrottled(w, o) ==
  /\ loops[w].pc = "call"
  /\ o \in HttpErrors \cup NoResponse
  /\ IsThrottled(o)
  /\ queue' = Requeue(queue, loops[w].item)
  /\ loops' = [loops EXCEPT ![w] = [pc |-> "backoff", item |-> NoItem,
                                    wakeAt |-> now + RATE_LIMIT_DELAY]]
  /\ lastRequestTime' = Stamped(o, lastRequestTime, now)
  /\ lastCall' = Done(w, o)
  /\ UNCHANGED <<now, cache, isProcessingQueue, requests, issued, lastOk,
                 ticks, jumps, direct>>

\* the back-off timer fires: continue
BackoffWake(w) ==
  /\ loops[w].pc = "backoff"
  /\ now >= loops[w].wakeAt
  /\ Apply(LoopTop(w, queue, lastRequestTime, isProcessingQueue, loops, issued))
  /\ UNCHANGED <<now, cache, lastRequestTime, requests, lastCall, lastOk,
                 ticks, jumps, direct>>

\* axios.get rejects with anything else: respond with the error,
\* resolve(null), next pass
CallFailed(w, o) ==
  /\ loops[w].pc = "call"
  /\ o \in HttpErrors \cup NoResponse
  /\ ~IsThrottled(o)
  /\ LET it == loops[w].item
     IN requests' = Settle(Send(requests, it.res, ErrorStatus(o), "error"),
                           it.res, "null")
  /\ lastRequestTime' = Stamped(o, lastRequestTime, now)
  /\ Apply(LoopTop(w, queue, Stamped(o, lastRequestTime, now),
                    isProcessingQueue, loops, issued))
  /\ lastCall' = Done(w, o)
  /\ UNCHANGED <<now, cache, lastOk, ticks, jumps, direct>>

\* The clock can move by d: no setTimeout of the loop is then overdue, and a
\* call in flight, which ends within TIMEOUT, is not outlived.
CanPass(d) ==
  /\ \A w \in Loops : loops[w].pc \in {"gate", "backoff"} => now + d <= loops[w].wakeAt
  /\ \A w \in Loops : loops[w].pc = "call" => d <= TIMEOUT

\* The stopwatch of the last call runs up to one step past RATE_LIMIT_DELAY.
Elapse(c, d) ==
  IF c.kind = "none" THEN c
  ELSE [c EXCEPT !.age = Min(@ + d, RATE_LIMIT_DELAY + TickStep)]

Tick ==
  /\ ticks < MaxTicks
  /\ CanPass(TickStep)
  /\ now' = now + TickStep
  /\ ticks' = ticks + 1
  /\ lastCall' = Elapse(lastCall, TickStep)
  /\ UNCHANGED <<cache, lastRequestTime, queue, isProcessingQueue, loops,
                 requests, issued, lastOk, jumps, direct>>

\* A long idle period.  With no fresh cache entry it would change nothing
\* but the origin of time, so it is taken only when an entry can go stale.
Jump ==
  /\ jumps < MaxJumps
  /\ \E k \in Keys : IsFresh(cache[k], now)
  /\ CanPass(JumpStep)
  /\ now' = now + JumpStep
  /\ jumps' = jumps + 1
  /\ lastCall' = Elapse(lastCall, JumpStep)
  /\ UNCHANGED <<cache, lastRequestTime, queue, isProcessingQueue, loops,
                 requests, issued, lastOk, ticks, direct>>

Next ==
  \/ \E k \in Keys : ProxyHit(k)
  \/ \E k \in Keys : ProxyMiss(k)
  \/ \E w \in Loops : GateWake(w)
  \/ \E w \in Loops, o \in Outcomes : CallOk(w, o)
  \/ \E w \in Loops, o \in Outcomes : CallThrottled(w, o)
  \/ \E w \in Loops, o \in Outcomes : CallFailed(w, o)
  \/ \E w \in Loops : BackoffWake(w)
  \/ Tick
  \/ Jump

Spec == Init /\ [][Next]_vars

Completes(w) ==
  \E o \in Outcomes : CallOk(w, o) \/ CallThrottled(w, o) \/ CallFailed(w, o)

\* --------------------------------------------- the handlers past the queue
\* /api/watch/:id/:episode and /api/episodes/:id begin with
\*   await axios.get(`${ANIME_API_URL}/anime/${id}/full`)
\* issued from the handler itself: no cache, no queue, no gate, no timeout.
\* What follows in them goes to another upstream and answers their own res.
DirectCall ==
  /\ direct < MaxDirect
  /\ direct' = direct + 1
  /\ UNCHANGED <<now, cache, lastRequestTime, queue, isProcessingQueue, loops,
                 requests, issued, lastCall, lastOk, ticks, jumps>>

GetWatch == DirectCall
GetEpisodes == DirectCall

\* that axios.get completes, with a response or an error
DirectDone ==
  /\ direct > 0
  /\ direct' = direct - 1
  /\ UNCHANGED <<now, cache, lastRequestTime, queue, isProcessingQueue, loops,
                 requests, issued, lastCall, lastOk, ticks, jumps>>

\* The whole server: the proxy routes and the two handlers above.
NextServer ==
  \/ \E k \in Keys : Len(requests) < MaxLiveReqs /\ ProxyHit(k)
  \/ \E k \in Keys : Len(requests) < MaxLiveReqs /\ ProxyMiss(k)
  \/ \E w \in Loops : GateWake(w)
  \/ \E w \in Loops : Completes(w)
  \/ \E w \in Loops : BackoffWake(w)
  \/ Tick
  \/ Jump
  \/ GetWatch
  \/ GetEpisodes
  \/ DirectDone

ServerSpec == Init /\ [][NextServer]_vars

\* ------------------------------------------------- the clock, kept relative
\* The code reads the clock only in differences (now - timestamp, a timer's
\* delay), so a behaviour is unchanged when every stored time is moved back
\* by d instead of the clock moving forward by d.  A stored time that is
\* already past the threshold it is compared with is moved no further.  A
\* cache entry older than LiveKeep is either held at that age or made
\* expired, so that every length of its remaining life is covered.  This
\* keeps the state space finite in behaviours that never end.
Older(t, d, keep) == IF now - t >= keep THEN t ELSE Max(t - d, now - keep)

OlderEntry(t, d, expire) ==
  IF now - t >= CACHE_DURATION THEN t
  ELSE IF now - t + d <= LiveKeep THEN t - d
  ELSE IF expire THEN now - CACHE_DURATION
  ELSE now - LiveKeep

TickLive ==
  /\ CanPass(LiveStep)
  /\ lastRequestTime' = Older(lastRequestTime, LiveStep, RATE_LIMIT_DELAY)
  /\ loops' = [w \in Loops |->
                IF loops[w].pc \in {"gate", "backoff"}
                THEN [loops[w] EXCEPT !.wakeAt = @ - LiveStep]
                ELSE loops[w]]
  /\ lastCall' = Elapse(lastCall, LiveStep)
  /\ \E expire \in [Keys -> BOOLEAN] :
       /\ cache' = [k \in Keys |->
                     IF cache[k].present
                     THEN [cache[k] EXCEPT !.timestamp = OlderEntry(@, LiveStep, expire[k])]
                     ELSE cache[k]]
       /\ lastOk' = [k \in Keys |->
                      IF lastOk[k].seen
                      THEN [lastOk[k] EXCEPT !.at = OlderEntry(@, LiveStep, expire[k])]
                      ELSE lastOk[k]]
  /\ UNCHANGED <<now, queue, isProcessingQueue, requests, issued, ticks, jumps, direct>>

NextLive ==
  \/ \E k \in Keys : Len(requests) < MaxLiveReqs /\ ProxyHit(k)
  \/ \E k \in Keys : Len(requests) < MaxLiveReqs /\ ProxyMiss(k)
  \/ \E w \in Loops : GateWake(w)
  \/ \E w \in Loops : Completes(w)
  \/ \E w \in Loops : BackoffWake(w)
  \/ TickLive

\* Timers fire, time passes, and every upstream call completes.
LiveSpec ==
  /\ Init
  /\ [][NextLive]_vars
  /\ WF_vars(TickLive)
  /\ \A w \in Loops : WF_vars(GateWake(w))
  /\ \A w \in Loops : WF_vars(BackoffWake(w))
  /\ \A w \in Loops : WF_vars(Completes(w))

\* ------------------------------------------------------------------ claims
Arrived(r) == r <= Len(requests)
Enqueued(r) == Arrived(r) /\ requests[r].sink # "none"
Waiting(r) == Arrived(r) /\ requests[r].sink = "pending"
Resolved(r) == Arrived(r) /\ requests[r].sink \notin {"none", "pending"}
BackingOff == \E w \in Loops : loops[w].pc = "backoff"

\* C7 as stated: every fetch that misses the cache and is enqueued
\* eventually resolves, whatever the upstream answers, as long as each call
\* completes.
C7_EveryItemResolves ==
  \A r \in 1 .. MaxLiveReqs : Waiting(r) ~> Resolved(r)

\* C7, amended: every fetch that misses the cache and is enqueued eventually
\* resolves, unless the upstream keeps answering 429 for ever (the worker
\* is backing off again and again).
C7_ResolvesUnlessThrottledForever ==
  \A r \in 1 .. MaxLiveReqs : ([]<>BackingOff) \/ (Waiting(r) ~> Resolved(r))

\* An item that was throttled, retried and resolved.
C7_Witness ==
  \E r \in 1 .. MaxLiveReqs : Resolved(r) /\ issued[r] >= 2

Reqs == 1 .. Len(requests)
Active == {w \in Loops : loops[w].pc # "off"}
InFlight == {w \in Loops : loops[w].pc = "call"}
InQueue(r) == \E i \in 1 .. Len(queue) : queue[i].res = r
BeingCalled(r) == \E w \in InFlight : loops[w].item.res = r
Responded(r) == requests[r].res.sent
\* The same, in the state a step leads to.
RespondedNext(r) == requests'[r].res.sent
InQueueNext(r) == \E i \in 1 .. Len(queue') : queue'[i].res = r
BeingCalledNext(r) ==
  \E w \in Loops : loops'[w].pc = "call" /\ loops'[w].item.res = r

\* Steps, as seen from the pair of states.
\* A request for k arrives (proxyRequest runs).
Arrives(k) ==
  /\ Len(requests') = Len(requests) + 1
  /\ requests'[Len(requests')].endpoint = k
\* An upstream call completes (lastCall' is that call).
Completes1 == \E w \in Loops : loops[w].pc = "call" /\ loops'[w] # loops[w]
\* Loop w issues an upstream call.
Issues(w) ==
  /\ loops'[w].pc = "call"
  /\ loops[w].pc # "call" \/ Completes1
Was429(c) == c.kind = "http" /\ c.status = 429
WasFailure(c) == c.kind \in {"http", "noresp"} /\ ~Was429(c)

\* C1: a fetch(K) issued less than CACHE_DURATION after the last successful
\* upstream call for K is answered from the cache with that call's payload:
\* the queue, the worker and the call counters stay as they are, whatever
\* the worker is doing.
C1_FreshHitServedFromCache ==
  [][\A k \in Keys :
       (Arrives(k) /\ lastOk[k].seen /\ now - lastOk[k].at < CACHE_DURATION)
       => /\ queue' = queue
          /\ loops' = loops
          /\ isProcessingQueue' = isProcessingQueue
          /\ issued' = Append(issued, 0)
          /\ cache' = cache
          /\ cache[k].data = lastOk[k].data
          /\ requests'[Len(requests')].res =
               [sent |-> TRUE, status |-> 200, body |-> cache[k].data]]_vars

\* A cache hit that arrived while the worker was backing off after a 429,
\* with another item waiting.
C1_Witness ==
  /\ Len(requests) = MaxReqs
  /\ requests[MaxReqs].sink = "none"
  /\ Responded(MaxReqs)
  /\ BackingOff
  /\ Len(queue) > 0
  /\ Was429(lastCall) /\ lastCall.age = 0

\* C2 as stated: when fetches for the same K are waiting together and the
\* upstream answers a call for K with success, that one call serves them
\* all: every waiting caller for K is answered then, with the same payload,
\* and none of them gets an upstream call of its own afterwards.
C2_SingleFlight ==
  [][(Completes1 /\ lastCall'.kind = "ok")
     => \A r \in Reqs :
          (Waiting(r) /\ requests[r].endpoint = requests[lastCall'.res].endpoint)
          => /\ requests'[r].res = requests'[lastCall'.res].res
             /\ ~InQueueNext(r)]_vars

\* C3: at most one loop instance of processQueue is active and at most one
\* upstream call is in flight; a fetch that calls processQueue while an
\* instance is active only appends its item to the queue.
C3_SingleWorker ==
  /\ [](Cardinality(Active) <= 1 /\ Cardinality(InFlight) <= 1)
  /\ [][\A k \in Keys :
          (Arrives(k) /\ Active # {} /\ requests'[Len(requests')].sink = "pending")
          => /\ queue' = Append(queue, [endpoint |-> k, res |-> Len(requests')])
             /\ loops' = loops
             /\ isProcessingQueue' = isProcessingQueue
             /\ lastRequestTime' = lastRequestTime]_vars

\* Two items wait behind a call in flight: processQueue was invoked twice
\* while the loop was active.
C3_Witness ==
  /\ Len(queue) = 2
  /\ Cardinality(InFlight) = 1
  /\ isProcessingQueue

\* C4 as stated: two consecutive upstream calls complete at least
\* RATE_LIMIT_DELAY apart, whatever the outcome of the first.
C4_SpacingBetweenCompletions ==
  [][(Completes1 /\ lastCall.kind # "none")
     => lastCall.age >= RATE_LIMIT_DELAY]_vars

\* C5: a 429 puts the item back at the head of the queue, and the next
\* upstream call is for that item, issued exactly RATE_LIMIT_DELAY after
\* the 429 was received.
C5_ThrottledItemRetriedFirst ==
  [][/\ (Completes1 /\ Was429(lastCall'))
        => (Len(queue') > 0 /\ Head(queue').res = lastCall'.res)
     /\ \A w \in Loops :
          (Issues(w) /\ Was429(lastCall'))
          => /\ loops'[w].item.res = lastCall'.res
             /\ lastCall'.age = RATE_LIMIT_DELAY]_vars

\* The queue held A then B, A was throttled once and then succeeded, and B
\* is now in flight; a third item arrived meanwhile.
C5_Witness ==
  /\ Len(requests) = 3
  /\ requests[1].endpoint = "A" /\ requests[2].endpoint = "B"
  /\ issued[1] = 2 /\ requests[1].res.status = 200
  /\ issued[2] = 1 /\ BeingCalled(2)
  /\ InQueue(3)

\* C6: a failure other than 429 answers the caller with an error, settles
\* its promise, leaves the item out of the queue and the cache as it was;
\* an item that was answered is never queued or called again.
C6_TerminalFailure ==
  /\ [](\A r \in Reqs : Responded(r) => ~InQueue(r) /\ ~BeingCalled(r))
  /\ [][(Completes1 /\ WasFailure(lastCall'))
        => /\ RespondedNext(lastCall'.res)
           /\ requests'[lastCall'.res].res.body = "error"
           /\ requests'[lastCall'.res].res.status >= 400
           /\ requests'[lastCall'.res].sink = "null"
           /\ ~InQueueNext(lastCall'.res)
           /\ ~BeingCalledNext(lastCall'.res)
           /\ cache' = cache]_vars

\* A 404 for an endpoint whose cache entry is stale: the entry is still
\* there, the caller has its error.
C6_Witness ==
  /\ lastCall.kind = "http" /\ lastCall.status = 404
  /\ Responded(lastCall.res)
  /\ cache[requests[lastCall.res].endpoint].present
  /\ now - cache[requests[lastCall.res].endpoint].timestamp >= CACHE_DURATION

\* C8: an item is first called only after every item enqueued before it
\* has been answered.
C8_Fifo ==
  \A y \in Reqs : \A x \in 1 .. (y - 1) :
    (issued[y] > 0 /\ Enqueued(x)) => Responded(x)

\* The first item was throttled, two more arrived, and the second is being
\* called.
C8_Witness ==
  /\ Len(requests) = 3
  /\ issued[1] >= 2
  /\ BeingCalled(2)
  /\ Enqueued(3)

\* C9: no caller is ever answered with status 429; a 429 neither settles a
\* promise nor sends a response; every other failure is answered to the
\* caller of the item that was called.
C9_ThrottleNotSurfaced ==
  /\ [](\A r \in Reqs : requests[r].res.status # 429)
  /\ [][/\ (Completes1 /\ Was429(lastCall')) => requests' = requests
        /\ (Completes1 /\ WasFailure(lastCall'))
           => /\ ~Responded(lastCall'.res) /\ RespondedNext(lastCall'.res)
              /\ \A r \in Reqs : r # lastCall'.res => requests'[r] = requests[r]]_vars

\* A 429 was just received: its caller is still waiting, unanswered.
C9_Witness ==
  /\ Was429(lastCall)
  /\ Waiting(lastCall.res)
  /\ ~Responded(lastCall.res)
  /\ BackingOff

\* C10: the error answered for a terminal failure has the upstream's HTTP
\* status when there is one, and 500 when there is none.
C10_ErrorStatus ==
  WasFailure(lastCall)
  => requests[lastCall.res].res.status =
       (IF lastCall.kind = "http" THEN lastCall.status ELSE 500)

\* A 404 from the upstream was answered as a 404.
C10_Witness ==
  /\ lastCall.kind = "http" /\ lastCall.status = 404
  /\ requests[lastCall.res].res.status = 404

\* An upstream call completes with success (lastCall' is that call).
CompletesOk == Completes1 /\ lastCall'.kind = "ok"
\* The endpoint of the item of request r.
EndpointOf(r) == requests[r].endpoint

\* C11: the cache changes only when an upstream call completes with
\* success, and then in one entry only: the entry of the endpoint that was
\* called becomes the payload handed to the caller, stamped with the current
\* time, whatever was there before.  Every other step (hit, enqueue, gate,
\* 429, terminal failure, the clock) leaves the cache as it was.
C11_CacheWrittenOnlyOnSuccess ==
  [][IF CompletesOk
     THEN cache' = [cache EXCEPT ![EndpointOf(lastCall'.res)] =
                      [present |-> TRUE,
                       data |-> requests'[lastCall'.res].sink,
                       timestamp |-> now]]
     ELSE cache' = cache]_vars

\* Two successes for the same endpoint with different payloads: the entry
\* holds the second one, stamped now.
C11_Witness ==
  /\ Len(requests) >= 2
  /\ EndpointOf(1) = EndpointOf(2)
  /\ requests[1].sink = "p1" /\ requests[2].sink = "p2"
  /\ lastCall.res = 2 /\ lastCall.age = 0
  /\ cache[EndpointOf(2)] = [present |-> TRUE, data |-> "p2", timestamp |-> now]

\* C12: lastRequestTime changes only in the step in which an upstream call
\* completes with success, and becomes the current time; a 429, a terminal
\* failure, a cache hit, an enqueue and a timer leave it as it was.
C12_StampedOnlyOnSuccess ==
  [][IF CompletesOk
     THEN lastRequestTime' = now
     ELSE lastRequestTime' = lastRequestTime]_vars

\* A terminal failure has just been received, half a second or more after
\* the last success: lastRequestTime is still the time of that success.
C12_Witness ==
  /\ WasFailure(lastCall) /\ lastCall.age = 0
  /\ \E k \in Keys : lastOk[k].seen /\ lastOk[k].at = lastRequestTime
  /\ lastRequestTime < now

\* C13: a fetch(K) is answered from the cache exactly when K has an entry
\* of age strictly less than CACHE_DURATION.  With no entry or an entry of
\* age CACHE_DURATION or more it is not answered in that step and its item
\* is in the queue or in flight; the stale entry stays, and an entry changes
\* only by a successful call for its own endpoint.
C13_ServedIffFresh ==
  [][/\ \A k \in Keys :
          Arrives(k)
          => LET r == Len(requests')
                 fresh == cache[k].present /\ now - cache[k].timestamp < CACHE_DURATION
             IN /\ cache' = cache
                /\ fresh => /\ requests'[r].sink = "none"
                            /\ requests'[r].res =
                                 [sent |-> TRUE, status |-> 200, body |-> cache[k].data]
                            /\ ~InQueueNext(r) /\ ~BeingCalledNext(r)
                /\ ~fresh => /\ requests'[r].sink = "pending"
                             /\ requests'[r].res = NoResp
                             /\ InQueueNext(r) \/ BeingCalledNext(r)
     /\ \A k \in Keys :
          cache'[k] # cache[k]
          => CompletesOk /\ EndpointOf(lastCall'.res) = k]_vars

\* A fetch arrived when the entry of its endpoint was exactly CACHE_DURATION
\* old: it waits for the upstream, and the entry is still there.
C13_Witness ==
  /\ Len(requests) = 2
  /\ EndpointOf(1) = EndpointOf(2)
  /\ Waiting(2) /\ ~Responded(2)
  /\ cache[EndpointOf(2)].present
  /\ cache[EndpointOf(2)].data = requests[1].sink
  /\ now - cache[EndpointOf(2)].timestamp = CACHE_DURATION

\* C14: the promise of a queue item is settled once: only in the step in
\* which the upstream call for that item completes with anything but a 429,
\* and always in that step, with the payload or with null.  Once settled
\* the item is not in the queue, is not called again and keeps its value.
C14_SettledOnce ==
  /\ [](\A r \in Reqs : Resolved(r) => ~InQueue(r) /\ ~BeingCalled(r))
  /\ [][\A r \in Reqs :
          LET mine == Completes1 /\ lastCall'.res = r /\ ~Was429(lastCall')
          IN /\ requests'[r].sink # requests[r].sink
                => /\ mine /\ Waiting(r) /\ BeingCalled(r)
                   /\ requests'[r].sink =
                        (IF lastCall'.kind = "ok"
                         THEN cache'[EndpointOf(r)].data ELSE "null")
             /\ mine => requests'[r].sink # "pending"
             /\ Resolved(r) => /\ requests'[r] = requests[r]
                               /\ issued'[r] = issued[r]]_vars

\* An item that was throttled, called again and then failed for good is
\* settled with null while the next item is in flight.
C14_Witness ==
  \E r \in Reqs :
    /\ requests[r].sink = "null" /\ issued[r] = 2
    /\ \E u \in Reqs : u # r /\ BeingCalled(u)

\* C15: the worker issues an upstream call only when RATE_LIMIT_DELAY or
\* more has passed since lastRequestTime; it waits at the gate only when
\* less has passed, and then until lastRequestTime + RATE_LIMIT_DELAY.
C15_GateAfterLastSuccess ==
  /\ [](\A w \in Loops :
          loops[w].pc = "gate"
          => loops[w].wakeAt = lastRequestTime + RATE_LIMIT_DELAY)
  /\ [][\A w \in Loops :
          /\ Issues(w) => now - lastRequestTime' >= RATE_LIMIT_DELAY
          /\ (loops'[w].pc = "gate" /\ loops[w].pc # "gate")
             => now - lastRequestTime' < RATE_LIMIT_DELAY]_vars

\* A call issued exactly RATE_LIMIT_DELAY after the last success, with
\* another item waiting behind it.
C15_Witness ==
  /\ InFlight # {}
  /\ lastCall.kind = "ok" /\ lastCall.age = RATE_LIMIT_DELAY
  /\ now - lastRequestTime = RATE_LIMIT_DELAY
  /\ Len(queue) >= 1

\* C16: whenever the event loop has control, a non-empty queue or a call in
\* flight means a loop instance is active with isProcessingQueue set; the
\* flag is set exactly while an instance is active; an instance ends only
\* with the queue empty and clears the flag; a miss that finds no instance
\* starts one.
C16_NoStrandedItem ==
  /\ []((Len(queue) > 0 \/ InFlight # {}) => (isProcessingQueue /\ Active # {}))
  /\ [](isProcessingQueue <=> Active # {})
  /\ [][/\ \A w \in Loops :
            (loops[w].pc # "off" /\ loops'[w].pc = "off")
            => Len(queue') = 0 /\ ~isProcessingQueue'
        /\ \A k \in Keys :
            (Arrives(k) /\ ~isProcessingQueue
               /\ requests'[Len(requests')].sink = "pending")
            => isProcessingQueue' /\ \E w \in Loops : loops'[w].pc # "off"]_vars

\* The first fetch succeeded and the loop ended; the second was a cache hit;
\* the third missed and a new loop instance is serving it.
C16_Witness ==
  /\ Len(requests) = 3
  /\ Enqueued(1) /\ requests[1].res.status = 200
  /\ requests[2].sink = "none"
  /\ Waiting(3)
  /\ isProcessingQueue /\ Active # {}

\* C17: every fetch that is waiting has exactly one item, in the queue or
\* in flight; a fetch that is not waiting has none; at most one item is in
\* flight; an item carries the endpoint of its fetch.
InQueueCount(r) == Cardinality({i \in 1 .. Len(queue) : queue[i].res = r})
InFlightCount(r) == Cardinality({w \in InFlight : loops[w].item.res = r})
C17_ItemsConserved ==
  /\ \A r \in Reqs :
       InQueueCount(r) + InFlightCount(r) = (IF Waiting(r) THEN 1 ELSE 0)
  /\ Cardinality(InFlight) <= 1
  /\ \A i \in 1 .. Len(queue) :
       queue[i].res \in Reqs /\ queue[i].endpoint = EndpointOf(queue[i].res)
  /\ \A w \in InFlight :
       loops[w].item.res \in Reqs
         /\ loops[w].item.endpoint = EndpointOf(loops[w].item.res)

\* A 429 has just put its item back in front of two items that wait.
C17_Witness ==
  /\ Was429(lastCall) /\ lastCall.age = 0
  /\ Len(queue) = 3
  /\ Head(queue).res = lastCall.res
  /\ InFlight = {}

\* C18 as stated: the metadata upstream sees one request at a time, and
\* none is sent less than RATE_LIMIT_DELAY after the last successful call
\* of the worker, the requests of /api/watch and /api/episodes included.
C18_OneUpstreamBudget ==
  /\ [](Cardinality(InFlight) + direct <= 1)
  /\ [][(direct' > direct \/ \E w \in Loops : Issues(w))
        => now - lastRequestTime' >= RATE_LIMIT_DELAY]_vars

TypeOK ==
  /\ now \in Nat
  /\ direct \in 0 .. MaxDirect
  /\ isProcessingQueue \in BOOLEAN
  /\ Len(requests) <= MaxReqs
  /\ Len(issued) = Len(requests)
====
